---- MODULE Spec2Model ----
(***************************************************************************)
(* Appointment booking core of the clinic backend: the Appointment         *)
(* collection with its unique indexes, the Counter collection, the request *)
(* handlers that book, accept, cancel, reject and delete appointments and  *)
(* that assign booking numbers, and the booking number reset script.       *)
(* Every awaited database call of a handler is one atomic step; handlers   *)
(* interleave between their awaits.                                        *)
(***************************************************************************)
EXTENDS Integers, Sequences, FiniteSets, TLC

(***************************************************************************)
(* Bounds and universes                                                    *)
(***************************************************************************)
MaxRequests == 3              \* requests started in a run of Spec
MaxRaceRequests == 6          \* requests started in a run of SpecRace
MaxSeqRequests == 4           \* requests started in a run of SpecSeq
MaxMaintRequests == 2         \* requests started in a run of SpecMaint
MaxAdminRequests == 2         \* requests started in a run of SpecAdmin
MaxBackfillDocs == 3          \* appointments of the doctor in SpecBackfill
MaxBackfillRuns == 2          \* runs of the backfill in SpecBackfill
MaxBackfillRequests == 1      \* bookings after the backfill in SpecBackfill
MaxDayRequests == 3           \* requests started in a run of SpecDay
MaxFaultRequests == 3         \* requests started in a run of SpecFault
MaxListingRequests == 4       \* requests started in a run of SpecListing
MaxRenumberDocs == 3          \* appointments stored in SpecRenumber
MaxRenumberRequests == 1      \* bookings after the renumbering in SpecRenumber
MaxQueueRequests == 4         \* requests started in a run of SpecQueue
MaxReminderDocs == 2          \* appointments stored in SpecReminder
MaxTicks == 5                 \* ticks of the clock in a run of SpecReminder
MaxRestarts == 1              \* restarts of the server in a run of SpecReminder
MaxLegacy == 1                \* appointments that predate booking numbers
MaxCallers == 4               \* concurrent callers of the allocator in SpecAlloc
MaxBase == 3                  \* largest counter value SpecAlloc starts from

Handlers == {1, 2}            \* request handlers that may run at once
Patients == {"P", "Q"}
Doctors == {"D1"}
Dates == {"2025-06-01"}
Times == {"09:00"}
NoDoctor == "null"            \* doctorProfile: null (specialty queue booking)

(***************************************************************************)
(* Strings of booking numbers: sequences of character codes, 0..9 digits.  *)
(***************************************************************************)
RECURSIVE String(_)
String(n) == IF n < 10 THEN <<n>> ELSE String(n \div 10) \o <<n % 10>>

EmptyString == << >>
Unset == <<-1>>               \* the field is absent from the stored document

isNumericBooking(value) ==
    /\ Len(value) > 0
    /\ \A i \in 1..Len(value) : value[i] \in 0..9

NullQueueNumber == 0

NoQr == << >>                 \* qrCode: "" and qrPayload: ""

(***************************************************************************)
(* State                                                                   *)
(***************************************************************************)
VARIABLES
    appts,        \* Appointment collection: _id -> document
    nextId,       \* next _id; ids grow with createdAt
    counters,     \* Counter collection: key -> seq, on the keys that exist
    handlers,     \* per request handler: position and local variables
    script,       \* the reset script or renumberAllAppointments: position and locals
    returned,     \* allocator callers: what each call returned
    budget,       \* requests that may still start in the run
    retired,      \* history: the cancelled, rejected or deleted appointments and their numbers
    lastEnsure,   \* history: _id -> number the last completed ensureBookingNumber yielded
    scenario,     \* history: the responses so far while the run is the booking scenario
    base,         \* history: the counters the allocator callers started from
    backfill,     \* ensureDoctorQueueBackfill: position and local variables
    job           \* the reminder job: clock, timer, runs and the reminder markers

vars ==
    <<appts, nextId, counters, handlers, script, returned, budget, retired,
      lastEnsure, scenario, base, backfill, job>>

BookingKey == <<"bookingNumber">>
DoctorQueueKey(d) == <<"doctorQueueNumber", d>>
DoctorDateQueueKey(d, date) == <<"doctorQueueNumber", d, date>>

NoDoc ==
    [user |-> "", doctorProfile |-> NoDoctor, appointmentDateIso |-> "",
     appointmentTimeValue |-> "", status |-> "", bookingNumber |-> EmptyString,
     doctorQueueNumber |-> NullQueueNumber, qrPayload |-> NoQr]

\* kind: the route; pc: the await it is at; actor: the doctor or patient calling;
\* doc: the in-memory mongoose document; dup: the unique indexes a write violated;
\* peer: the outcome of a booking of the same slot, or of an accept of the same
\* appointment by another doctor, that ran at the same time, while no other
\* request has started since; unsaved: doc.bookingNumber is a
\* modified path a failed save left behind; before: the document as the
\* cancelling handler loaded it; threw: a counter update of the handler was
\* rejected by the database
IdleHandler ==
    [kind |-> "idle", pc |-> "idle", actor |-> "", id |-> 0, doc |-> NoDoc,
     outcome |-> "none", dup |-> {}, peer |-> "none", unsaved |-> FALSE,
     before |-> NoDoc, threw |-> FALSE]

IdleScript == [pc |-> "idle", cursor |-> << >>, seq |-> 0, loaded |-> << >>]

\* total, assigned, max, min, appointments (ids in cursor, documents in
\* loaded) and seq are the locals of the function; run counts the calls;
\* before and countersBefore are the collections as the call found them,
\* writes the updates the call has sent, saved the appointments the calls have
\* written and ended how the call before this one ended (history)
IdleBackfill ==
    [pc |-> "idle", doctor |-> "", total |-> 0, assigned |-> 0, max |-> 0, min |-> 0,
     cursor |-> << >>, loaded |-> << >>, seq |-> 0, run |-> 0,
     before |-> << >>, countersBefore |-> << >>, writes |-> 0, saved |-> {},
     ended |-> "none"]

\* clock: the time; up: the server process is running; nextFire: when the
\* interval timer fires next; starts: how often the server was started; runs:
\* the calls of runAppointmentReminders in progress, with their locals;
\* patientReminderFor: that field of the stored appointments, by _id; sent:
\* the reminders delivered to the patient of each appointment (history)
JobDown ==
    [clock |-> 0, up |-> FALSE, nextFire |-> 0, starts |-> 0, runs |-> {},
     patientReminderFor |-> << >>, sent |-> << >>]

(***************************************************************************)
(* Counter collection: findOneAndUpdate({key}, {$inc: {seq: 1}},           *)
(* {new: true, upsert: true})                                              *)
(***************************************************************************)
SeqOf(key) == IF key \in DOMAIN counters THEN counters[key] ELSE 0

SetCounter(key, seq) ==
    [k \in DOMAIN counters \cup {key} |-> IF k = key THEN seq ELSE counters[k]]

\* without {new: true} the update returns the document as it was before
IncResultBefore(key) == SeqOf(key)

\* the seq of the document the update returns
IncResult(key) == SeqOf(key) + 1

\* an update whose filter matches every counter
IncCounterEvery(key) == [k \in DOMAIN counters \cup {key} |-> SeqOf(k) + 1]

IncCounter(key) == SetCounter(key, SeqOf(key) + 1)

getNextBookingNumber == String(IncResult(BookingKey))

getNextDoctorQueueNumber(d) == IncResult(DoctorQueueKey(d))

(***************************************************************************)
(* Unique indexes of the Appointment collection                            *)
(***************************************************************************)
Active(doc) == doc.status \in {"pending", "confirmed"}

\* the slot index was never built
InSlotIndexAbsent(doc) == FALSE

\* partialFilterExpression of the slot index; doctorProfile: null is a stored
\* field, so {$exists: true} holds of specialty queue bookings too
InSlotIndex(doc) ==
    /\ doc.appointmentDateIso # ""
    /\ doc.appointmentTimeValue # ""
    /\ Active(doc)

SlotKey(doc) == <<doc.doctorProfile, doc.appointmentDateIso, doc.appointmentTimeValue>>

\* the queue number index was never built
InQueueIndexAbsent(doc) == FALSE

\* partialFilterExpression of the queue number index: doctorQueueNumber is a
\* number, whatever the status
InQueueIndex(doc) == doc.doctorQueueNumber # NullQueueNumber

QueueKey(doc) == <<doc.doctorProfile, doc.appointmentDateIso, doc.doctorQueueNumber>>

\* the bookingNumber index was never built
InBookingNumberIndexAbsent(doc) == FALSE

\* sparse: documents without the field are not indexed
InBookingNumberIndex(doc) == doc.bookingNumber # Unset

\* the unique indexes that storing doc under id would violate
DuplicateKeys(id, doc) ==
    LET others == DOMAIN appts \ {id} IN
    (IF InBookingNumberIndex(doc) /\ \E o \in others :
          InBookingNumberIndex(appts[o]) /\ appts[o].bookingNumber = doc.bookingNumber
     THEN {"bookingNumber"} ELSE {})
    \cup
    (IF InSlotIndex(doc) /\ \E o \in others :
          InSlotIndex(appts[o]) /\ SlotKey(appts[o]) = SlotKey(doc)
     THEN {"slot"} ELSE {})
    \cup
    (IF InQueueIndex(doc) /\ \E o \in others :
          InQueueIndex(appts[o]) /\ QueueKey(appts[o]) = QueueKey(doc)
     THEN {"queue"} ELSE {})

Insert(id, doc) == [i \in DOMAIN appts \cup {id} |-> IF i = id THEN doc ELSE appts[i]]

Remove(id) == [i \in DOMAIN appts \ {id} |-> appts[i]]

\* a mongoose document as loaded: an absent field reads as the schema default
Load(id) ==
    [appts[id] EXCEPT !.bookingNumber =
        IF appts[id].bookingNumber = Unset THEN EmptyString ELSE @]

(***************************************************************************)
(* Handler bookkeeping                                                     *)
(***************************************************************************)
Idle(h) == handlers[h].pc = "idle"
Busy(h) == handlers[h].pc \notin {"idle", "done"}

\* a handler that has its outcome returns the response before anything else
\* runs: the response touches nothing shared
Quiet == \A h \in Handlers : handlers[h].pc # "done"

\* handlers are interchangeable: a request takes the first idle one
CanStart(h) ==
    /\ budget > 0
    /\ Quiet
    /\ Idle(h)
    /\ \A o \in Handlers : o < h => Busy(o)

At(h, kind, pc) == Quiet /\ handlers[h].kind = kind /\ handlers[h].pc = pc

\* what no request handler touches
Outside == <<script, returned, base, backfill, job>>

Goto(h, rec) ==
    /\ handlers' = [handlers EXCEPT ![h] = rec]
    /\ UNCHANGED <<budget, scenario, Outside>>

Finish(rec, outcome) == [rec EXCEPT !.pc = "done", !.outcome = outcome]

LastEnsure(id) == IF id \in DOMAIN lastEnsure THEN lastEnsure[id] ELSE EmptyString

SetLastEnsure(id, number) ==
    [i \in DOMAIN lastEnsure \cup {id} |-> IF i = id THEN number ELSE lastEnsure[i]]

(***************************************************************************)
(* The booking scenario: P books the slot, Q books the same slot, P        *)
(* cancels, Q books the slot again, one after the other on an empty store  *)
(***************************************************************************)
ScenarioSlot ==
    [doctorProfile |-> "D1", appointmentDateIso |-> "2025-06-01",
     appointmentTimeValue |-> "09:00"]

ScenarioOff == [on |-> FALSE, log |-> << >>]

ScenarioExpects(rec) ==
    LET n == Len(scenario.log)
        books(p) == /\ rec.kind = "book"
                    /\ rec.doc.user = p
                    /\ rec.doc.doctorProfile = ScenarioSlot.doctorProfile
                    /\ rec.doc.appointmentDateIso = ScenarioSlot.appointmentDateIso
                    /\ rec.doc.appointmentTimeValue = ScenarioSlot.appointmentTimeValue
    IN /\ scenario.on
       /\ \A o \in Handlers : Idle(o)
       /\ \/ n = 0 /\ books("P")
          \/ n = 1 /\ books("Q")
          \/ n = 2 /\ rec.kind = "patientCancel" /\ rec.actor = "P"
                   /\ rec.id = scenario.log[1].id
          \/ n = 3 /\ books("Q")

\* a request starts in h
Begin(h, rec) ==
    /\ handlers' = [o \in Handlers |->
          IF o = h THEN rec ELSE [handlers[o] EXCEPT !.peer = "none"]]
    /\ budget' = budget - 1
    /\ scenario' = IF ScenarioExpects(rec) THEN scenario ELSE ScenarioOff
    /\ UNCHANGED Outside

\* two bookings by different patients of one doctor's slot
SameSlotBookings(a, b) ==
    /\ a.kind = "book" /\ b.kind = "book"
    /\ a.doc.user # b.doc.user
    /\ a.doc.doctorProfile # NoDoctor
    /\ a.doc.doctorProfile = b.doc.doctorProfile
    /\ a.doc.appointmentDateIso = b.doc.appointmentDateIso
    /\ a.doc.appointmentTimeValue = b.doc.appointmentTimeValue

\* the outcome of a booking that went past its conflict pre-check to the insert
Inserted(rec) == rec.outcome = "created" \/ rec.dup # {}

\* two accepts by different doctors of one appointment that both found it
\* pending and not assigned to another doctor
SameAccepts(a, b) ==
    /\ a.kind = "accept" /\ b.kind = "accept"
    /\ a.id = b.id
    /\ a.actor # b.actor
    /\ a.doc # NoDoc /\ b.doc # NoDoc

\* res.status(..).json(..): the handler ends
Respond(h) ==
    /\ handlers[h].pc = "done"
    /\ handlers' = [o \in Handlers |->
          IF o = h THEN IdleHandler
          ELSE IF /\ Busy(o)
                  /\ \/ Inserted(handlers[h]) /\ SameSlotBookings(handlers[h], handlers[o])
                     \/ SameAccepts(handlers[h], handlers[o])
               THEN [handlers[o] EXCEPT !.peer = handlers[h].outcome]
               ELSE handlers[o]]
    /\ scenario' = IF scenario.on
                   THEN [scenario EXCEPT !.log = Append(@,
                           [outcome |-> handlers[h].outcome, id |-> handlers[h].id,
                            bookingNumber |-> handlers[h].doc.bookingNumber])]
                   ELSE scenario
    /\ UNCHANGED <<appts, nextId, counters, budget, retired, lastEnsure, Outside>>

(***************************************************************************)
(* Conflict queries                                                        *)
(***************************************************************************)
\* the same query without its status filter
SlotConflictAnyStatus(d, date, time, except) ==
    \E i \in DOMAIN appts \ except :
        /\ appts[i].doctorProfile = d
        /\ appts[i].appointmentDateIso = date
        /\ appts[i].appointmentTimeValue = time

\* Appointment.findOne({doctorProfile, status: {$in: [pending, confirmed]},
\*                      appointmentDateIso, appointmentTimeValue})
SlotConflict(d, date, time, except) ==
    \E i \in DOMAIN appts \ except :
        /\ appts[i].doctorProfile = d
        /\ Active(appts[i])
        /\ appts[i].appointmentDateIso = date
        /\ appts[i].appointmentTimeValue = time

userHasAppointment(p, d, date) ==
    \E i \in DOMAIN appts :
        /\ appts[i].user = p
        /\ appts[i].doctorProfile = d
        /\ appts[i].appointmentDateIso = date
        /\ Active(appts[i])

NewDoc(p, d, date, time, status) ==
    [user |-> p, doctorProfile |-> d, appointmentDateIso |-> date,
     appointmentTimeValue |-> time, status |-> status,
     bookingNumber |-> EmptyString, doctorQueueNumber |-> NullQueueNumber,
     qrPayload |-> NoQr]

(***************************************************************************)
(* ensureQrForAppointment(appointment), after its ensureBookingNumber call *)
(***************************************************************************)
\* what the payload carries of the appointment: bookingNumber (what the
\* doctor sees), systemBookingNumber, status and doctorQueueNumber
QrPayload(doc) ==
    LET systemBookingNumber == doc.bookingNumber
        displayedBookingNumber ==
            IF doc.doctorQueueNumber # NullQueueNumber
            THEN String(doc.doctorQueueNumber) ELSE systemBookingNumber
    IN <<displayedBookingNumber, systemBookingNumber, doc.status, doc.doctorQueueNumber>>

needsRegenerate(doc) ==
    IF doc.qrPayload = NoQr THEN TRUE
    ELSE LET parsedBooking == doc.qrPayload[1]
             parsedSystem == doc.qrPayload[2]
             current == QrPayload(doc)
         IN ~ /\ parsedBooking = current[1]
              /\ \/ parsedSystem = EmptyString
                 \/ parsedSystem = current[2]
                 \/ parsedBooking = current[2]

\* where a handler goes once the number of its document is ensured
AfterEnsure(rec, outcome) ==
    IF needsRegenerate(rec.doc)
    THEN [rec EXCEPT !.pc = "qrSave", !.outcome = outcome]
    ELSE Finish(rec, outcome)

\* appointment.qrCode = ..; appointment.qrPayload = ..; appointment.save(): the
\* save writes the modified paths, and a failed save is only logged
QrSave(h) ==
    /\ Quiet
    /\ handlers[h].pc = "qrSave"
    /\ LET r == handlers[h]
           payload == QrPayload(r.doc)
           stored == [appts[r.id] EXCEPT
                        !.qrPayload = payload,
                        !.bookingNumber = IF r.unsaved THEN r.doc.bookingNumber ELSE @] IN
       /\ IF r.id \in DOMAIN appts /\ DuplicateKeys(r.id, stored) = {}
          THEN appts' = [appts EXCEPT ![r.id] = stored]
          ELSE UNCHANGED appts
       /\ Goto(h, Finish([r EXCEPT !.doc.qrPayload = payload], r.outcome))
    /\ UNCHANGED <<nextId, counters, retired, lastEnsure>>

(***************************************************************************)
(* POST /api/appointments (patient booking)                                *)
(***************************************************************************)
BookStart(h, p, d, date, time) ==
    /\ CanStart(h)
    /\ LET rec == [IdleHandler EXCEPT !.kind = "book", !.actor = p,
                                      !.doc = NewDoc(p, d, date, time, "pending")]
       IN IF d # NoDoctor /\ SlotConflict(d, date, time, {})
          THEN Begin(h, Finish(rec, "SlotConflict"))
          ELSE Begin(h, [rec EXCEPT !.pc = "userCheck"])
    /\ UNCHANGED <<appts, nextId, counters, retired, lastEnsure>>

BookUserCheck(h) ==
    /\ At(h, "book", "userCheck")
    /\ LET r == handlers[h] IN
       IF userHasAppointment(r.doc.user, r.doc.doctorProfile, r.doc.appointmentDateIso)
       THEN Goto(h, Finish(r, "DuplicateDailyBooking"))
       ELSE Goto(h, [r EXCEPT !.pc = IF r.doc.doctorProfile # NoDoctor
                                     THEN "queueInc" ELSE "numberInc"])
    /\ UNCHANGED <<appts, nextId, counters, retired, lastEnsure>>

BookQueueInc(h) ==
    /\ At(h, "book", "queueInc")
    /\ LET r == handlers[h]
           key == DoctorDateQueueKey(r.doc.doctorProfile, r.doc.appointmentDateIso) IN
       /\ Goto(h, [r EXCEPT !.pc = "numberInc", !.doc.doctorQueueNumber = IncResult(key)])
       /\ counters' = IncCounter(key)
    /\ UNCHANGED <<appts, nextId, retired, lastEnsure>>

BookNumberInc(h) ==
    /\ At(h, "book", "numberInc")
    /\ Goto(h, [handlers[h] EXCEPT !.pc = "create",
                                   !.doc.bookingNumber = getNextBookingNumber])
    /\ counters' = IncCounter(BookingKey)
    /\ UNCHANGED <<appts, nextId, retired, lastEnsure>>

\* Appointment.create, then ensureQrForAppointment on the new document, whose
\* number is valid; the catch answers duplicate key errors with 409
BookCreate(h) ==
    /\ At(h, "book", "create")
    /\ LET r == handlers[h]
           dup == DuplicateKeys(nextId, r.doc) IN
       IF dup = {}
       THEN /\ appts' = Insert(nextId, r.doc)
            /\ nextId' = nextId + 1
            /\ lastEnsure' = SetLastEnsure(nextId, r.doc.bookingNumber)
            /\ Goto(h, [AfterEnsure(r, "created") EXCEPT !.id = nextId])
       ELSE /\ Goto(h, [Finish(r, "SlotConflict") EXCEPT !.dup = dup])
            /\ UNCHANGED <<appts, nextId, lastEnsure>>
    /\ UNCHANGED <<counters, retired>>

(***************************************************************************)
(* ensureBookingNumber(appointment)                                        *)
(***************************************************************************)
\* the test of the stored number left out
NeedsAlways(doc) == TRUE

NeedsBookingNumber(doc) ==
    doc.bookingNumber = EmptyString \/ ~isNumericBooking(doc.bookingNumber)

\* where a handler goes once its document is in memory and ensureBookingNumber
\* is called on it: a valid number makes the call's save a no-op
EnsureOr(doc, incPc, next) == IF NeedsBookingNumber(doc) THEN incPc ELSE next

EnsureInc(h) ==
    /\ Quiet
    /\ handlers[h].pc \in {"ensureInc", "qrEnsureInc"}
    /\ Goto(h, [handlers[h] EXCEPT
                  !.pc = IF @ = "ensureInc" THEN "ensureSave" ELSE "qrEnsureSave",
                  !.doc.bookingNumber = getNextBookingNumber])
    /\ counters' = IncCounter(BookingKey)
    /\ UNCHANGED <<appts, nextId, retired, lastEnsure>>

\* appointment.save() of the assigned number; a failed save is only logged
EnsureSave(h) ==
    /\ Quiet
    /\ handlers[h].pc \in {"ensureSave", "qrEnsureSave"}
    /\ LET r == handlers[h]
           stored == [appts[r.id] EXCEPT !.bookingNumber = r.doc.bookingNumber]
           saved == r.id \in DOMAIN appts /\ DuplicateKeys(r.id, stored) = {}
           rec == [r EXCEPT !.unsaved = ~saved] IN
       /\ IF saved
          THEN appts' = [appts EXCEPT ![r.id] = stored]
          ELSE UNCHANGED appts
       /\ lastEnsure' = IF r.id \in DOMAIN appts
                        THEN SetLastEnsure(r.id, r.doc.bookingNumber)
                        ELSE lastEnsure
       /\ IF r.pc = "ensureSave"
          THEN Goto(h, [rec EXCEPT !.pc = "reload"])
          ELSE Goto(h, AfterEnsure(rec, "ok"))
    /\ UNCHANGED <<nextId, counters, retired>>

\* Appointment.findById(appointment._id) followed by ensureQrForAppointment
Reload(h) ==
    /\ Quiet
    /\ handlers[h].pc = "reload"
    /\ LET r == handlers[h] IN
       IF r.id \notin DOMAIN appts
       THEN Goto(h, Finish(r, "ok")) /\ UNCHANGED lastEnsure
       ELSE LET rec == [r EXCEPT !.doc = Load(r.id), !.unsaved = FALSE] IN
            IF NeedsBookingNumber(rec.doc)
            THEN Goto(h, [rec EXCEPT !.pc = "qrEnsureInc"]) /\ UNCHANGED lastEnsure
            ELSE /\ Goto(h, AfterEnsure(rec, "ok"))
                 /\ lastEnsure' = SetLastEnsure(r.id, rec.doc.bookingNumber)
    /\ UNCHANGED <<appts, nextId, counters, retired>>

(***************************************************************************)
(* GET /api/appointments/:id (details, by the patient or the doctor)       *)
(***************************************************************************)
GetDetails(h, id) ==
    /\ CanStart(h)
    /\ LET rec == [IdleHandler EXCEPT !.kind = "details", !.id = id] IN
       IF id \notin DOMAIN appts
       THEN Begin(h, Finish(rec, "NotFound")) /\ UNCHANGED lastEnsure
       ELSE LET loaded == [rec EXCEPT !.doc = Load(id)] IN
            IF NeedsBookingNumber(loaded.doc)
            THEN Begin(h, [loaded EXCEPT !.pc = "qrEnsureInc"]) /\ UNCHANGED lastEnsure
            ELSE /\ Begin(h, AfterEnsure(loaded, "ok"))
                 /\ lastEnsure' = SetLastEnsure(id, loaded.doc.bookingNumber)
    /\ UNCHANGED <<appts, nextId, counters, retired>>

(***************************************************************************)
(* POST /api/doctor/appointments/manual                                    *)
(***************************************************************************)
ManualStart(h, d, p, date, time) ==
    /\ CanStart(h)
    /\ LET rec == [IdleHandler EXCEPT !.kind = "manual", !.actor = d,
                                      !.doc = NewDoc(p, d, date, time, "confirmed")]
       IN IF SlotConflict(d, date, time, {})
          THEN Begin(h, Finish(rec, "SlotConflict"))
          ELSE Begin(h, [rec EXCEPT !.pc = "numberInc"])
    /\ UNCHANGED <<appts, nextId, counters, retired, lastEnsure>>

ManualNumberInc(h) ==
    /\ At(h, "manual", "numberInc")
    /\ Goto(h, [handlers[h] EXCEPT !.pc = "queueInc",
                                   !.doc.bookingNumber = getNextBookingNumber])
    /\ counters' = IncCounter(BookingKey)
    /\ UNCHANGED <<appts, nextId, retired, lastEnsure>>

ManualQueueInc(h) ==
    /\ At(h, "manual", "queueInc")
    /\ LET r == handlers[h] IN
       /\ Goto(h, [r EXCEPT !.pc = "create",
                            !.doc.doctorQueueNumber = getNextDoctorQueueNumber(r.actor)])
       /\ counters' = IncCounter(DoctorQueueKey(r.actor))
    /\ UNCHANGED <<appts, nextId, retired, lastEnsure>>

\* Appointment.create, then ensureQrForAppointment on the new document; the
\* catch answers every error with 500
ManualCreate(h) ==
    /\ At(h, "manual", "create")
    /\ LET r == handlers[h]
           dup == DuplicateKeys(nextId, r.doc) IN
       IF dup = {}
       THEN /\ appts' = Insert(nextId, r.doc)
            /\ nextId' = nextId + 1
            /\ lastEnsure' = SetLastEnsure(nextId, r.doc.bookingNumber)
            /\ Goto(h, [AfterEnsure(r, "created") EXCEPT !.id = nextId])
       ELSE /\ Goto(h, [Finish(r, "ServerError") EXCEPT !.dup = dup])
            /\ UNCHANGED <<appts, nextId, lastEnsure>>
    /\ UNCHANGED <<counters, retired>>

(***************************************************************************)
(* PATCH /api/doctor/appointments/:id/accept                               *)
(***************************************************************************)
AcceptStart(h, d, id) ==
    /\ CanStart(h)
    /\ LET rec == [IdleHandler EXCEPT !.kind = "accept", !.actor = d, !.id = id] IN
       IF id \notin DOMAIN appts \/ appts[id].status # "pending"
       THEN Begin(h, Finish(rec, "NotFound"))
       ELSE IF appts[id].doctorProfile # NoDoctor /\ appts[id].doctorProfile # d
       THEN Begin(h, Finish(rec, "AlreadyAssigned"))
       ELSE Begin(h, [rec EXCEPT !.pc = "conflictCheck", !.doc = Load(id)])
    /\ UNCHANGED <<appts, nextId, counters, retired, lastEnsure>>

\* accept without the conflict query
AcceptConflictSkipped(h) == FALSE

AcceptConflict(h) ==
    LET r == handlers[h] IN
    /\ r.doc.appointmentDateIso # "" /\ r.doc.appointmentTimeValue # ""
    /\ SlotConflict(r.actor, r.doc.appointmentDateIso, r.doc.appointmentTimeValue, {r.id})

AcceptConflictCheck(h) ==
    /\ At(h, "accept", "conflictCheck")
    /\ IF AcceptConflict(h)
       THEN Goto(h, Finish(handlers[h], "SlotConflict"))
       ELSE Goto(h, [handlers[h] EXCEPT !.pc = "save"])
    /\ UNCHANGED <<appts, nextId, counters, retired, lastEnsure>>

\* appointment.save() of status and doctorProfile; the catch answers every
\* error with 500; then ensureBookingNumber(appointment)
AcceptSave(h) ==
    /\ At(h, "accept", "save")
    /\ LET r == handlers[h]
           stored == [appts[r.id] EXCEPT !.status = "confirmed", !.doctorProfile = r.actor]
           dup == IF r.id \in DOMAIN appts THEN DuplicateKeys(r.id, stored) ELSE {}
           doc == [r.doc EXCEPT !.status = "confirmed", !.doctorProfile = r.actor] IN
       IF r.id \notin DOMAIN appts \/ dup # {}
       THEN /\ Goto(h, [Finish(r, "ServerError") EXCEPT !.dup = dup])
            /\ UNCHANGED <<appts, lastEnsure>>
       ELSE /\ appts' = [appts EXCEPT ![r.id] = stored]
            /\ Goto(h, [r EXCEPT !.doc = doc, !.pc = EnsureOr(doc, "ensureInc", "reload")])
            /\ lastEnsure' = IF NeedsBookingNumber(doc) THEN lastEnsure
                             ELSE SetLastEnsure(r.id, doc.bookingNumber)
    /\ UNCHANGED <<nextId, counters, retired>>

(***************************************************************************)
(* Cancelling: PATCH /api/appointments/:id/cancel (patient),               *)
(* PATCH /api/doctor/appointments/:id/reject and /cancel (doctor)          *)
(***************************************************************************)
CancelStart(h, kind, who, id) ==
    /\ CanStart(h)
    /\ LET rec == [IdleHandler EXCEPT !.kind = kind, !.actor = who, !.id = id]
           found == /\ id \in DOMAIN appts
                    /\ kind = "reject" => appts[id].status = "pending"
                    /\ kind = "doctorCancel" => Active(appts[id]) IN
       IF ~found
       THEN Begin(h, Finish(rec, "NotFound"))
       ELSE IF kind = "patientCancel" /\ appts[id].user # who
       THEN Begin(h, Finish(rec, "Forbidden"))
       ELSE Begin(h, [rec EXCEPT !.pc = "save", !.doc = Load(id), !.before = Load(id)])
    /\ UNCHANGED <<appts, nextId, counters, retired, lastEnsure>>

\* a release that hands the number back by rewinding the counter
releaseByRewinding ==
    IF SeqOf(BookingKey) > 0 THEN SetCounter(BookingKey, SeqOf(BookingKey) - 1)
    ELSE counters

\* booking numbers are not given back: only the QR fields are cleared
releaseBookingNumber == counters

Retire(id) ==
    retired \cup (IF isNumericBooking(appts[id].bookingNumber)
                  THEN {[id |-> id, bookingNumber |-> appts[id].bookingNumber,
                         doctorProfile |-> appts[id].doctorProfile,
                         doctorQueueNumber |-> appts[id].doctorQueueNumber]}
                  ELSE {})

\* appointment.status = "cancelled"; appointment.save()
CancelSave(h) ==
    /\ Quiet
    /\ handlers[h].kind \in {"patientCancel", "reject", "doctorCancel"}
    /\ handlers[h].pc = "save"
    /\ LET r == handlers[h] IN
       IF r.id \notin DOMAIN appts
       THEN /\ Goto(h, Finish(r, "ServerError"))
            /\ UNCHANGED <<appts, retired>>
       ELSE /\ appts' = [appts EXCEPT ![r.id].status = "cancelled"]
            /\ retired' = Retire(r.id)
            /\ Goto(h, [r EXCEPT !.pc = "release", !.doc.status = "cancelled"])
    /\ UNCHANGED <<nextId, counters, lastEnsure>>

\* await releaseBookingNumber(appointment): qrCode = ""; qrPayload = "";
\* appointment.save(), which writes the fields only if the loaded document
\* held a QR; a failed save is only logged
ReleaseSave(h) ==
    /\ Quiet
    /\ handlers[h].pc = "release"
    /\ LET r == handlers[h]
           rec == [r EXCEPT !.doc.qrPayload = NoQr] IN
       /\ IF r.doc.qrPayload # NoQr /\ r.id \in DOMAIN appts
          THEN appts' = [appts EXCEPT ![r.id].qrPayload = NoQr]
          ELSE UNCHANGED appts
       /\ counters' = releaseBookingNumber
       /\ CASE r.kind = "doctorCancel" -> Goto(h, [rec EXCEPT !.pc = "reload"])
            [] r.kind = "delete" -> Goto(h, [rec EXCEPT !.pc = "deleteOne"])
            [] OTHER -> Goto(h, Finish(rec, "ok"))
    /\ UNCHANGED <<nextId, retired, lastEnsure>>

(***************************************************************************)
(* DELETE /api/doctor/appointments/:id                                     *)
(***************************************************************************)
DeleteStart(h, d, id) ==
    /\ CanStart(h)
    /\ LET rec == [IdleHandler EXCEPT !.kind = "delete", !.actor = d, !.id = id] IN
       IF id \notin DOMAIN appts
       THEN Begin(h, Finish(rec, "NotFound"))
       ELSE Begin(h, [rec EXCEPT !.pc = "release", !.doc = Load(id)])
    /\ UNCHANGED <<appts, nextId, counters, retired, lastEnsure>>

\* appointment.deleteOne()
DeleteOne(h) ==
    /\ At(h, "delete", "deleteOne")
    /\ LET r == handlers[h] IN
       /\ Goto(h, Finish(r, "ok"))
       /\ UNCHANGED counters
       /\ IF r.id \in DOMAIN appts
          THEN /\ appts' = Remove(r.id)
               /\ retired' = Retire(r.id)
               /\ lastEnsure' = [i \in DOMAIN lastEnsure \ {r.id} |-> lastEnsure[i]]
          ELSE UNCHANGED <<appts, retired, lastEnsure>>
    /\ UNCHANGED nextId

(***************************************************************************)
(* PATCH /api/admin/appointments/:id/cancel and /complete                  *)
(***************************************************************************)
AdminStart(h, kind, id) ==
    /\ CanStart(h)
    /\ LET rec == [IdleHandler EXCEPT !.kind = kind, !.actor = "admin", !.id = id] IN
       IF id \notin DOMAIN appts
       THEN Begin(h, Finish(rec, "NotFound"))
       ELSE Begin(h, [rec EXCEPT !.pc = "save", !.doc = Load(id), !.before = Load(id)])
    /\ UNCHANGED <<appts, nextId, counters, retired, lastEnsure>>

\* cancel: appointment.status = "cancelled"; qrCode = ""; qrPayload = "";
\* complete: appointment.status = "completed"; then appointment.save()
AdminSave(h) ==
    /\ Quiet
    /\ handlers[h].kind \in {"adminCancel", "adminComplete"}
    /\ handlers[h].pc = "save"
    /\ LET r == handlers[h]
           cancel == r.kind = "adminCancel"
           status == IF cancel THEN "cancelled" ELSE "completed"
           clears == cancel /\ r.doc.qrPayload # NoQr IN
       IF r.id \notin DOMAIN appts
       THEN /\ Goto(h, Finish(r, "ServerError"))
            /\ UNCHANGED <<appts, retired>>
       ELSE /\ appts' = [appts EXCEPT ![r.id].status = status,
                                      ![r.id].qrPayload = IF clears THEN NoQr ELSE @]
            /\ retired' = IF cancel THEN Retire(r.id) ELSE retired
            /\ Goto(h, Finish([r EXCEPT !.doc.status = status,
                                        !.doc.qrPayload = IF cancel THEN NoQr ELSE @],
                              "ok"))
    /\ UNCHANGED <<nextId, counters, lastEnsure>>

(***************************************************************************)
(* scripts/reset-booking-numbers.js                                        *)
(***************************************************************************)
RECURSIVE Ascending(_)
Ascending(ids) ==
    IF ids = {} THEN << >>
    ELSE LET least == CHOOSE i \in ids : \A j \in ids : i <= j
         IN <<least>> \o Ascending(ids \ {least})

ServerVars ==
    <<handlers, nextId, budget, retired, lastEnsure, scenario, returned, base, backfill,
      job>>

\* Appointment.updateMany({}, {$unset: {bookingNumber: 1, qrCode: 1, qrPayload: 1}})
ScriptUnset ==
    /\ script.pc = "idle"
    /\ appts' = [i \in DOMAIN appts |->
                    [appts[i] EXCEPT !.bookingNumber = Unset, !.qrPayload = NoQr]]
    /\ script' = [script EXCEPT !.pc = "find"]
    /\ UNCHANGED <<counters, ServerVars>>

\* Appointment.find({}).sort({createdAt: 1}).cursor(): the first batch holds
\* every appointment stored when the loop starts
ScriptFind ==
    /\ script.pc = "find"
    /\ script' = [script EXCEPT !.pc = "loop", !.cursor = Ascending(DOMAIN appts)]
    /\ UNCHANGED <<appts, counters, ServerVars>>

\* seq += 1; Appointment.updateOne({_id}, {$set: {bookingNumber: String(seq)}});
\* a duplicate key error ends the script
ScriptUpdateOne ==
    /\ script.pc = "loop"
    /\ script.cursor # << >>
    /\ LET id == Head(script.cursor)
           seq == script.seq + 1
           stored == [appts[id] EXCEPT !.bookingNumber = String(seq)] IN
       IF id \notin DOMAIN appts
       THEN /\ script' = [script EXCEPT !.cursor = Tail(@), !.seq = seq]
            /\ UNCHANGED appts
       ELSE IF DuplicateKeys(id, stored) # {}
       THEN /\ script' = [script EXCEPT !.pc = "failed", !.cursor = << >>, !.seq = seq]
            /\ UNCHANGED appts
       ELSE /\ script' = [script EXCEPT !.cursor = Tail(@), !.seq = seq]
            /\ appts' = [appts EXCEPT ![id] = stored]
    /\ UNCHANGED <<counters, ServerVars>>

\* Counter.findOneAndUpdate({key: "bookingNumber"}, {$set: {seq}}, {upsert: true})
ScriptSetCounter ==
    /\ script.pc = "loop"
    /\ script.cursor = << >>
    /\ counters' = SetCounter(BookingKey, script.seq)
    /\ script' = [script EXCEPT !.pc = "done"]
    /\ UNCHANGED <<appts, ServerVars>>

(***************************************************************************)
(* renumberAllAppointments()                                               *)
(***************************************************************************)
\* Number(value) of a string of digits; NaN, which equals nothing, is -1
RECURSIVE NumberOf(_)
NumberOf(value) ==
    IF ~isNumericBooking(value) THEN -1
    ELSE IF Len(value) = 1 THEN value[1]
    ELSE 10 * NumberOf(SubSeq(value, 1, Len(value) - 1)) + value[Len(value)]

\* only appointments without a number are numbered
needsNumberIfMissing(doc, seq) == doc.bookingNumber = EmptyString

\* !appt.bookingNumber || Number(appt.bookingNumber) !== seq
needsNumber(doc, seq) ==
    doc.bookingNumber = EmptyString \/ NumberOf(doc.bookingNumber) # seq

\* Appointment.find({}).sort({createdAt: 1})
RenumberAllFind ==
    /\ script.pc = "idle"
    /\ script' = [script EXCEPT !.pc = "renumber",
                                !.cursor = Ascending(DOMAIN appts),
                                !.loaded = [i \in DOMAIN appts |-> Load(i)]]
    /\ UNCHANGED <<appts, counters, ServerVars>>

\* seq += 1; if the number differs: appt.bookingNumber = String(seq);
\* await appt.save(), whose error leaves the function
RenumberAllSave ==
    /\ script.pc = "renumber"
    /\ script.cursor # << >>
    /\ LET id == Head(script.cursor)
           seq == script.seq + 1
           appt == script.loaded[id] IN
       IF ~needsNumber(appt, seq)
       THEN /\ script' = [script EXCEPT !.cursor = Tail(@), !.seq = seq]
            /\ UNCHANGED appts
       ELSE IF \/ id \notin DOMAIN appts
               \/ DuplicateKeys(id, [appts[id] EXCEPT !.bookingNumber = String(seq)]) # {}
       THEN /\ script' = [script EXCEPT !.pc = "failed", !.cursor = << >>, !.seq = seq]
            /\ UNCHANGED appts
       ELSE /\ script' = [script EXCEPT !.cursor = Tail(@), !.seq = seq]
            /\ appts' = [appts EXCEPT ![id].bookingNumber = String(seq)]
    /\ UNCHANGED <<counters, ServerVars>>

\* Counter.findOneAndUpdate({key: "bookingNumber"}, {$set: {seq}}, {upsert: true})
RenumberAllSetCounter ==
    /\ script.pc = "renumber"
    /\ script.cursor = << >>
    /\ counters' = SetCounter(BookingKey, script.seq)
    /\ script' = [script EXCEPT !.pc = "done"]
    /\ UNCHANGED <<appts, ServerVars>>

(***************************************************************************)
(* ensureDoctorQueueBackfill(doctorProfileId)                              *)
(***************************************************************************)
OfDoctor(d) == {i \in DOMAIN appts : appts[i].doctorProfile = d}

Numbered(d) == {i \in OfDoctor(d) : appts[i].doctorQueueNumber # NullQueueNumber}

\* $max and $min of the aggregate; Number(maxRow?.[0]?.max ?? 0)
MaxQueueNumber(d) ==
    IF Numbered(d) = {} THEN 0
    ELSE CHOOSE n \in {appts[i].doctorQueueNumber : i \in Numbered(d)} :
            \A i \in Numbered(d) : appts[i].doctorQueueNumber <= n

MinQueueNumber(d) ==
    IF Numbered(d) = {} THEN 0
    ELSE CHOOSE n \in {appts[i].doctorQueueNumber : i \in Numbered(d)} :
            \A i \in Numbered(d) : appts[i].doctorQueueNumber >= n

\* every call is taken to have found drift
needsRenumberAlways(total, assigned, max, min) == TRUE

needsRenumber(total, assigned, max, min) ==
    assigned # total \/ max # total \/ min # 1

\* the renumbered appointment keeps its QR
renumberedQrKept(doc) == doc.qrPayload

\* appt.qrCode = ""; appt.qrPayload = ""
renumberedQr(doc) == NoQr

BackfillVars ==
    <<handlers, nextId, budget, retired, lastEnsure, scenario, script, returned, base,
      job>>

\* no call of the backfill is running
BackfillIdle == backfill.pc \in {"idle", "done", "failed"}

\* the call, up to total = await Appointment.countDocuments({doctorProfile})
BackfillCall(d) ==
    /\ BackfillIdle
    /\ backfill' = [IdleBackfill EXCEPT
                      !.pc = IF OfDoctor(d) = {} THEN "done" ELSE "countAssigned",
                      !.doctor = d,
                      !.total = Cardinality(OfDoctor(d)),
                      !.run = backfill.run + 1,
                      !.before = appts,
                      !.countersBefore = counters,
                      !.saved = backfill.saved,
                      !.ended = CASE backfill.pc = "done" -> "returned"
                                  [] backfill.pc = "failed" -> "threw"
                                  [] OTHER -> "none"]
    /\ UNCHANGED <<appts, nextId, counters, handlers, retired, lastEnsure, scenario,
                   script, returned, base, job>>

BackfillCountTotal(d) ==
    /\ backfill.run < MaxBackfillRuns
    /\ budget = MaxBackfillRequests
    /\ BackfillCall(d)
    /\ UNCHANGED budget

BackfillCountAssigned ==
    /\ backfill.pc = "countAssigned"
    /\ backfill' = [backfill EXCEPT !.pc = "aggregate",
                                    !.assigned = Cardinality(Numbered(backfill.doctor))]
    /\ UNCHANGED <<appts, counters, BackfillVars>>

BackfillAggregate ==
    /\ backfill.pc = "aggregate"
    /\ LET max == MaxQueueNumber(backfill.doctor)
           min == MinQueueNumber(backfill.doctor) IN
       backfill' = [backfill EXCEPT
                      !.max = max,
                      !.min = min,
                      !.pc = IF needsRenumber(backfill.total, backfill.assigned, max, min)
                             THEN "find" ELSE "done"]
    /\ UNCHANGED <<appts, counters, BackfillVars>>

\* Appointment.find({doctorProfile}).sort({createdAt: 1})
BackfillFind ==
    /\ backfill.pc = "find"
    /\ backfill' = [backfill EXCEPT
                      !.pc = "loop",
                      !.cursor = Ascending(OfDoctor(backfill.doctor)),
                      !.loaded = [i \in OfDoctor(backfill.doctor) |-> appts[i]]]
    /\ UNCHANGED <<appts, counters, BackfillVars>>

\* one turn of the loop: seq += 1 and, if the number differs, appt.save() of
\* the number and the cleared QR; a save that fails throws out of the function
BackfillSave ==
    /\ backfill.pc = "loop"
    /\ backfill.cursor # << >>
    /\ LET id == Head(backfill.cursor)
           seq == backfill.seq + 1
           appt == backfill.loaded[id]
           stored == [appts[id] EXCEPT !.doctorQueueNumber = seq,
                                       !.qrPayload = IF renumberedQr(appt) # appt.qrPayload
                                                     THEN renumberedQr(appt) ELSE @]
           turned == [backfill EXCEPT !.cursor = Tail(@), !.seq = seq] IN
       IF appt.doctorQueueNumber = seq
       THEN backfill' = turned /\ UNCHANGED appts
       ELSE IF id \notin DOMAIN appts \/ DuplicateKeys(id, stored) # {}
       THEN backfill' = [turned EXCEPT !.pc = "failed", !.writes = @ + 1] /\ UNCHANGED appts
       ELSE /\ backfill' = [turned EXCEPT !.saved = @ \cup {id}, !.writes = @ + 1]
            /\ appts' = [appts EXCEPT ![id] = stored]
    /\ UNCHANGED <<counters, BackfillVars>>

\* Counter.findOneAndUpdate({key: doctorQueueNumber:{doctor}}, {$set: {seq}},
\* {upsert: true})
BackfillSetCounter ==
    /\ backfill.pc = "loop"
    /\ backfill.cursor = << >>
    /\ counters' = SetCounter(DoctorQueueKey(backfill.doctor), backfill.seq)
    /\ backfill' = [backfill EXCEPT !.pc = "done", !.writes = @ + 1]
    /\ UNCHANGED <<appts, BackfillVars>>

(***************************************************************************)
(* jobs/reminders.js: startReminderJobs and runAppointmentReminders. The   *)
(* clock counts ticks of 150 seconds from midnight of the one date.        *)
(***************************************************************************)
ReminderHours == 48           \* reminderHours (2 hours), in ticks
ReminderEvery == 2            \* appointmentEveryMs and windowMs (5 minutes), in ticks

\* raw.match(/^(\d{1,2}):(\d{2})/) and the range tests, on the time values
\* that occur; null is hh = -1
parseTimeHHmm(timeLike) ==
    CASE timeLike = "09:00" -> [hh |-> 9, mm |-> 0]
      [] timeLike = "09:05" -> [hh |-> 9, mm |-> 5]
      [] timeLike = "10:00" -> [hh |-> 10, mm |-> 0]
      [] OTHER -> [hh |-> -1, mm |-> -1]

\* new Date(`${dateIso}T${hh}:${mm}:00`).getTime(), in ticks; -1 when the
\* date or the time does not parse
parseAppointmentDateTime(appt) ==
    LET timeObj == parseTimeHHmm(appt.appointmentTimeValue) IN
    IF appt.appointmentDateIso = "" \/ timeObj.hh = -1 THEN -1
    ELSE ((timeObj.hh * 60 + timeObj.mm) * 2) \div 5

\* `${appt.appointmentDateIso}T${timeStr}`; the patientReminderFor "" of an
\* appointment that was never reminded is << >>
ReminderKey(appt) == <<appt.appointmentDateIso, appt.appointmentTimeValue>>

\* const now = Date.now() of a call, before its first await
NewRun(now) ==
    [now |-> now, pc |-> "find", loaded |-> << >>, cursor |-> << >>, bulk |-> << >>]

JobVars ==
    <<appts, nextId, counters, handlers, script, returned, budget, retired,
      lastEnsure, scenario, base, backfill>>

\* when the server is first started: as the window of the first call begins
\* one interval before the first appointment
FirstClock == parseAppointmentDateTime(appts[1]) - ReminderHours - ReminderEvery

\* deploy.sh: pm2 restart ends the process with the calls it is running; the
\* new process calls startReminderJobs once it listens: one call at once, and
\* the interval timer
Restart ==
    /\ job.up
    /\ job.starts <= MaxRestarts
    /\ job' = [job EXCEPT !.starts = @ + 1,
                          !.nextFire = job.clock + ReminderEvery,
                          !.runs = {NewRun(job.clock)}]
    /\ UNCHANGED JobVars

\* the setInterval callback
TimerFire ==
    /\ job.up
    /\ job.clock >= job.nextFire
    /\ job' = [job EXCEPT !.nextFire = job.clock + ReminderEvery,
                          !.runs = @ \cup {NewRun(job.clock)}]
    /\ UNCHANGED JobVars

\* time passes; a timer that is due fires first
ClockTick ==
    /\ job.clock < job.nextFire
    /\ job.clock < FirstClock + MaxTicks
    /\ job' = [job EXCEPT !.clock = @ + 1]
    /\ UNCHANGED JobVars

\* Appointment.find({status: "confirmed", appointmentDateIso: {$gte, $lte}})
\* .select(..).lean(): the date of the model is in the range
RunFind(r) ==
    /\ r \in job.runs
    /\ r.pc = "find"
    /\ LET scanned == {i \in DOMAIN appts : /\ appts[i].status = "confirmed"
                                           /\ appts[i].appointmentDateIso \in Dates} IN
       job' = [job EXCEPT !.runs = (@ \ {r}) \cup
                 {[r EXCEPT !.pc = "loop",
                            !.cursor = Ascending(scanned),
                            !.loaded = [i \in scanned |-> job.patientReminderFor[i]]]}]
    /\ UNCHANGED JobVars

\* one turn of the loop: an appointment that does not parse, is outside the
\* window of the call or carries the key in the copy the call loaded is passed
\* over; for a due one await sendPushToUser, which catches its errors, and
\* bulk.push
RunTurn(r, delivered) ==
    /\ r \in job.runs
    /\ r.pc = "loop"
    /\ r.cursor # << >>
    /\ LET id == Head(r.cursor)
           turned == [r EXCEPT !.cursor = Tail(@)]
           apptMs == parseAppointmentDateTime(appts[id])
           dueStart == r.now + ReminderHours
           dueEnd == r.now + ReminderHours + ReminderEvery
           due == /\ apptMs # -1
                  /\ ~(apptMs < dueStart \/ apptMs >= dueEnd)
                  /\ r.loaded[id] # ReminderKey(appts[id]) IN
       IF ~due
       THEN job' = [job EXCEPT !.runs = (@ \ {r}) \cup {turned}]
       ELSE job' = [job EXCEPT
                      !.runs = (@ \ {r}) \cup
                                 {[turned EXCEPT !.bulk = Append(@, <<id, ReminderKey(appts[id])>>)]},
                      !.sent[id] = IF delivered THEN @ + 1 ELSE @]
    /\ UNCHANGED JobVars

\* if (bulk.length) await Appointment.bulkWrite(bulk, {ordered: false}); return
RunBulkWrite(r) ==
    /\ r \in job.runs
    /\ r.pc = "loop"
    /\ r.cursor = << >>
    /\ job' = [job EXCEPT
                 !.runs = @ \ {r},
                 !.patientReminderFor = [i \in DOMAIN @ |->
                     IF \E k \in DOMAIN r.bulk : r.bulk[k][1] = i
                     THEN ReminderKey(appts[i]) ELSE @[i]]]
    /\ UNCHANGED JobVars

(***************************************************************************)
(* Concurrent callers of the allocator                                     *)
(***************************************************************************)
Callers == 1..MaxCallers

\* what a caller holds: the string getNextBookingNumber returned, or the number
\* getNextDoctorQueueNumber returned
NotCalled ==
    [called |-> FALSE, key |-> << >>, bookingNumber |-> EmptyString,
     doctorQueueNumber |-> NullQueueNumber]

AppVars ==
    <<appts, nextId, handlers, script, budget, retired, lastEnsure, scenario, backfill,
      job>>

CallBookingNumber(c) ==
    /\ returned[c] = NotCalled
    /\ returned' = [returned EXCEPT ![c] =
          [NotCalled EXCEPT !.called = TRUE, !.key = BookingKey,
                            !.bookingNumber = getNextBookingNumber]]
    /\ counters' = IncCounter(BookingKey)
    /\ UNCHANGED <<base, AppVars>>

CallDoctorQueueNumber(c, d) ==
    /\ returned[c] = NotCalled
    /\ returned' = [returned EXCEPT ![c] =
          [NotCalled EXCEPT !.called = TRUE, !.key = DoctorQueueKey(d),
                            !.doctorQueueNumber = getNextDoctorQueueNumber(d)]]
    /\ counters' = IncCounter(DoctorQueueKey(d))
    /\ UNCHANGED <<base, AppVars>>

(***************************************************************************)
(* Initial states: an empty database, or one holding appointments that     *)
(* were stored before booking numbers and queue numbers existed            *)
(***************************************************************************)
LegacyDocs ==
    {[NewDoc("P", d, date, time, "pending") EXCEPT !.bookingNumber = Unset] :
        d \in Doctors \cup {NoDoctor}, date \in Dates, time \in Times}

InitServer(legacy, started) ==
    /\ \E n \in 0..legacy :
          /\ appts \in [1..n -> LegacyDocs]
          /\ \A i \in 1..n : DuplicateKeys(i, appts[i]) = {}
          /\ nextId = n + 1
          /\ scenario = [on |-> n = 0, log |-> << >>]
    /\ counters = << >>
    /\ handlers = [h \in Handlers |-> IdleHandler]
    /\ script = IdleScript
    /\ returned = [c \in Callers |-> NotCalled]
    /\ budget = started
    /\ retired = {}
    /\ lastEnsure = << >>
    /\ base = << >>
    /\ backfill = IdleBackfill
    /\ job = JobDown

Init == InitServer(MaxLegacy, MaxRequests)

Steps ==
    \/ \E h \in Handlers : Respond(h)
    \/ \E h \in Handlers : BookUserCheck(h)
    \/ \E h \in Handlers : BookQueueInc(h)
    \/ \E h \in Handlers : BookNumberInc(h)
    \/ \E h \in Handlers : BookCreate(h)
    \/ \E h \in Handlers : ManualNumberInc(h)
    \/ \E h \in Handlers : ManualQueueInc(h)
    \/ \E h \in Handlers : ManualCreate(h)
    \/ \E h \in Handlers : AcceptConflictCheck(h)
    \/ \E h \in Handlers : AcceptSave(h)
    \/ \E h \in Handlers : CancelSave(h)
    \/ \E h \in Handlers : ReleaseSave(h)
    \/ \E h \in Handlers : DeleteOne(h)
    \/ \E h \in Handlers : EnsureInc(h)
    \/ \E h \in Handlers : EnsureSave(h)
    \/ \E h \in Handlers : Reload(h)
    \/ \E h \in Handlers : QrSave(h)

Starts ==
    \/ \E h \in Handlers, p \in Patients, d \in Doctors \cup {NoDoctor},
          date \in Dates, time \in Times : BookStart(h, p, d, date, time)
    \/ \E h \in Handlers, d \in Doctors, p \in Patients,
          date \in Dates, time \in Times : ManualStart(h, d, p, date, time)
    \/ \E h \in Handlers, d \in Doctors, id \in 1..nextId : AcceptStart(h, d, id)
    \/ \E h \in Handlers, p \in Patients, id \in 1..nextId :
          CancelStart(h, "patientCancel", p, id)
    \/ \E h \in Handlers, d \in Doctors, id \in 1..nextId : CancelStart(h, "reject", d, id)
    \/ \E h \in Handlers, d \in Doctors, id \in 1..nextId :
          CancelStart(h, "doctorCancel", d, id)
    \/ \E h \in Handlers, d \in Doctors, id \in 1..nextId : DeleteStart(h, d, id)
    \/ \E h \in Handlers, id \in 1..nextId : GetDetails(h, id)

Next == Steps \/ Starts

Spec == Init /\ [][Next]_vars

(***************************************************************************)
(* The requests one after another: none starts while another is running    *)
(***************************************************************************)
NextSeq ==
    \/ Steps
    \/ (\A h \in Handlers : Idle(h)) /\ Starts

SpecSeq == InitServer(MaxLegacy, MaxSeqRequests) /\ [][NextSeq]_vars

(***************************************************************************)
(* Bookings of one slot racing each other, and the slot freed by a cancel  *)
(***************************************************************************)
RaceStarts ==
    \/ \E h \in Handlers, p \in Patients, d \in Doctors,
          date \in Dates, time \in Times : BookStart(h, p, d, date, time)
    \/ \E h \in Handlers, d \in Doctors, p \in Patients,
          date \in Dates, time \in Times : ManualStart(h, d, p, date, time)
    \/ \E h \in Handlers, p \in Patients, id \in 1..nextId :
          CancelStart(h, "patientCancel", p, id)

RaceSteps ==
    \/ \E h \in Handlers : Respond(h)
    \/ \E h \in Handlers : BookUserCheck(h)
    \/ \E h \in Handlers : BookQueueInc(h)
    \/ \E h \in Handlers : BookNumberInc(h)
    \/ \E h \in Handlers : BookCreate(h)
    \/ \E h \in Handlers : ManualNumberInc(h)
    \/ \E h \in Handlers : ManualQueueInc(h)
    \/ \E h \in Handlers : ManualCreate(h)
    \/ \E h \in Handlers : CancelSave(h)
    \/ \E h \in Handlers : ReleaseSave(h)
    \/ \E h \in Handlers : QrSave(h)

NextRace == RaceSteps \/ RaceStarts

SpecRace == InitServer(0, MaxRaceRequests) /\ [][NextRace]_vars

(***************************************************************************)
(* The server with the reset script run against the live database          *)
(***************************************************************************)
ScriptSteps == ScriptUnset \/ ScriptFind \/ ScriptUpdateOne \/ ScriptSetCounter

NextMaint == Steps \/ Starts \/ ScriptSteps

SpecMaint == InitServer(0, MaxMaintRequests) /\ [][NextMaint]_vars

(***************************************************************************)
(* The server with the admin routes                                        *)
(***************************************************************************)
AdminStarts ==
    \/ \E h \in Handlers, id \in 1..nextId : AdminStart(h, "adminCancel", id)
    \/ \E h \in Handlers, id \in 1..nextId : AdminStart(h, "adminComplete", id)

AdminSteps == \E h \in Handlers : AdminSave(h)

NextAdmin == Steps \/ Starts \/ AdminStarts \/ AdminSteps

SpecAdmin == InitServer(MaxLegacy, MaxAdminRequests) /\ [][NextAdmin]_vars

(***************************************************************************)
(* The backfill with no concurrent writes, on any assignment of queue      *)
(* numbers the unique indexes admit, and the doctor's next booking         *)
(***************************************************************************)
BackfillDates == Dates \cup {"2025-06-02"}

\* date, status, queue number (0: none) and whether a QR is cached
BackfillChoices ==
    BackfillDates \X {"confirmed", "cancelled"} \X (0..MaxBackfillDocs) \X BOOLEAN

BackfillDoc(i, d, choice) ==
    LET doc == [NewDoc("P", d, choice[1], "09:00", choice[2]) EXCEPT
                   !.bookingNumber = String(i), !.doctorQueueNumber = choice[3]]
    IN [doc EXCEPT !.qrPayload = IF choice[4] THEN QrPayload(doc) ELSE NoQr]

InitBackfill ==
    /\ \E n \in 0..MaxBackfillDocs, d \in Doctors :
          /\ \E choice \in [1..n -> BackfillChoices] :
                appts = [i \in 1..n |-> BackfillDoc(i, d, choice[i])]
          /\ \A i \in 1..n : DuplicateKeys(i, appts[i]) = {}
          /\ nextId = n + 1
          /\ \E seq \in {0, n} :
                counters = [k \in {key \in {BookingKey} : n > 0}
                                  \cup {key \in {DoctorQueueKey(d)} : seq > 0}
                              |-> IF k = BookingKey THEN n ELSE seq]
    /\ scenario = ScenarioOff
    /\ handlers = [h \in Handlers |-> IdleHandler]
    /\ script = IdleScript
    /\ returned = [c \in Callers |-> NotCalled]
    /\ budget = MaxBackfillRequests
    /\ retired = {}
    /\ lastEnsure = << >>
    /\ base = << >>
    /\ backfill = IdleBackfill
    /\ job = JobDown

BackfillSteps ==
    \/ \E d \in Doctors : BackfillCountTotal(d)
    \/ BackfillCountAssigned
    \/ BackfillAggregate
    \/ BackfillFind
    \/ BackfillSave
    \/ BackfillSetCounter

\* the doctor's next booking, by a patient or by the doctor, once a call of
\* the backfill has returned
NextBookingStarts ==
    \/ \E h \in Handlers, p \in Patients, d \in Doctors, date \in Dates, time \in Times :
          backfill.pc = "done" /\ BookStart(h, p, d, date, time)
    \/ \E h \in Handlers, d \in Doctors, p \in Patients, date \in Dates, time \in Times :
          backfill.pc = "done" /\ ManualStart(h, d, p, date, time)

NextBookingSteps ==
    \/ \E h \in Handlers : Respond(h)
    \/ \E h \in Handlers : BookUserCheck(h)
    \/ \E h \in Handlers : BookQueueInc(h)
    \/ \E h \in Handlers : BookNumberInc(h)
    \/ \E h \in Handlers : BookCreate(h)
    \/ \E h \in Handlers : ManualNumberInc(h)
    \/ \E h \in Handlers : ManualQueueInc(h)
    \/ \E h \in Handlers : ManualCreate(h)
    \/ \E h \in Handlers : QrSave(h)

NextBackfill == BackfillSteps \/ NextBookingStarts \/ NextBookingSteps

SpecBackfill == InitBackfill /\ [][NextBackfill]_vars

(***************************************************************************)
(* The doctor's bookings, deletions and listings: GET /me and              *)
(* GET /appointments call the backfill before they read the appointments;  *)
(* a listing runs while no other request does                              *)
(***************************************************************************)
ListingStart(d) ==
    /\ budget > 0
    /\ \A h \in Handlers : Idle(h)
    /\ BackfillCall(d)
    /\ budget' = budget - 1

ListingStarts ==
    \/ \E d \in Doctors : ListingStart(d)
    \/ \E h \in Handlers, p \in Patients, d \in Doctors, date \in Dates, time \in Times :
          BackfillIdle /\ BookStart(h, p, d, date, time)
    \/ \E h \in Handlers, d \in Doctors, p \in Patients, date \in Dates, time \in Times :
          BackfillIdle /\ ManualStart(h, d, p, date, time)
    \/ \E h \in Handlers, d \in Doctors, id \in 1..nextId :
          BackfillIdle /\ DeleteStart(h, d, id)

ListingSteps ==
    \/ BackfillCountAssigned
    \/ BackfillAggregate
    \/ BackfillFind
    \/ BackfillSave
    \/ BackfillSetCounter
    \/ \E h \in Handlers : ReleaseSave(h)
    \/ \E h \in Handlers : DeleteOne(h)

NextListing == ListingStarts \/ ListingSteps \/ NextBookingSteps

SpecListing == InitServer(0, MaxListingRequests) /\ [][NextListing]_vars

(***************************************************************************)
(* The renumbering of every appointment with the server stopped, by the    *)
(* reset script or by renumberAllAppointments, from any numbering the      *)
(* unique index allows; the server then takes one booking                  *)
(***************************************************************************)
RenumberNumbers == {Unset} \cup {String(k) : k \in 1..(MaxRenumberDocs + 1)}

RenumberDoc(number) ==
    [NewDoc("P", "D1", "2025-06-01", "09:00", "cancelled") EXCEPT
        !.bookingNumber = number]

InitRenumber ==
    /\ \E n \in 0..MaxRenumberDocs :
          /\ \E numbers \in [1..n -> RenumberNumbers] :
                appts = [i \in 1..n |-> RenumberDoc(numbers[i])]
          /\ \A i \in 1..n : DuplicateKeys(i, appts[i]) = {}
          /\ nextId = n + 1
          /\ \E seq \in 0..(MaxRenumberDocs + 1) :
                counters = IF seq = 0 THEN << >> ELSE (BookingKey :> seq)
    /\ handlers = [h \in Handlers |-> IdleHandler]
    /\ script = IdleScript
    /\ returned = [c \in Callers |-> NotCalled]
    /\ budget = MaxRenumberRequests
    /\ retired = {}
    /\ lastEnsure = << >>
    /\ scenario = ScenarioOff
    /\ base = << >>
    /\ backfill = IdleBackfill
    /\ job = JobDown

RenumberSteps ==
    \/ ScriptSteps
    \/ RenumberAllFind
    \/ RenumberAllSave
    \/ RenumberAllSetCounter

ResumedStarts ==
    /\ script.pc = "done"
    /\ \/ \E h \in Handlers, p \in Patients, d \in Doctors,
             date \in Dates, time \in Times : BookStart(h, p, d, date, time)
       \/ \E h \in Handlers, d \in Doctors, p \in Patients,
             date \in Dates, time \in Times : ManualStart(h, d, p, date, time)

NextRenumber == RenumberSteps \/ ResumedStarts \/ NextBookingSteps

SpecRenumber == InitRenumber /\ [][NextRenumber]_vars

(***************************************************************************)
(* The database rejecting a counter update of a booking: findOneAndUpdate  *)
(* throws, the exception leaves the awaited expression and the route's     *)
(* catch answers 500                                                       *)
(***************************************************************************)
BookIncrementFails(h) ==
    /\ Quiet
    /\ handlers[h].kind = "book"
    /\ handlers[h].pc \in {"queueInc", "numberInc"}
    /\ Goto(h, [Finish(handlers[h], "ServerError") EXCEPT !.threw = TRUE])
    /\ UNCHANGED <<appts, nextId, counters, retired, lastEnsure>>

ManualIncrementFails(h) ==
    /\ Quiet
    /\ handlers[h].kind = "manual"
    /\ handlers[h].pc \in {"numberInc", "queueInc"}
    /\ Goto(h, [Finish(handlers[h], "ServerError") EXCEPT !.threw = TRUE])
    /\ UNCHANGED <<appts, nextId, counters, retired, lastEnsure>>

FaultSteps ==
    \/ \E h \in Handlers : BookIncrementFails(h)
    \/ \E h \in Handlers : ManualIncrementFails(h)

NextFault == RaceSteps \/ RaceStarts \/ FaultSteps

SpecFault == InitServer(0, MaxFaultRequests) /\ [][NextFault]_vars

(***************************************************************************)
(* Bookings of one day: the patients book a doctor at the times of the     *)
(* day, and the doctor books them by hand                                  *)
(***************************************************************************)
DayTimes == Times \cup {"10:00"}

DayStarts ==
    \/ \E h \in Handlers, p \in Patients, d \in Doctors,
          date \in Dates, time \in DayTimes : BookStart(h, p, d, date, time)
    \/ \E h \in Handlers, d \in Doctors, p \in Patients,
          date \in Dates, time \in DayTimes : ManualStart(h, d, p, date, time)

DaySteps ==
    \/ \E h \in Handlers : Respond(h)
    \/ \E h \in Handlers : BookUserCheck(h)
    \/ \E h \in Handlers : BookQueueInc(h)
    \/ \E h \in Handlers : BookNumberInc(h)
    \/ \E h \in Handlers : BookCreate(h)
    \/ \E h \in Handlers : ManualNumberInc(h)
    \/ \E h \in Handlers : ManualQueueInc(h)
    \/ \E h \in Handlers : ManualCreate(h)
    \/ \E h \in Handlers : QrSave(h)

NextDay == DaySteps \/ DayStarts

SpecDay == InitServer(0, MaxDayRequests) /\ [][NextDay]_vars

(***************************************************************************)
(* The specialty queue: patients book without a doctor or with one, and    *)
(* the doctors of the specialty accept the pending appointments            *)
(***************************************************************************)
QueueStarts ==
    \/ \E h \in Handlers, p \in Patients, d \in Doctors \cup {NoDoctor},
          date \in Dates, time \in Times : BookStart(h, p, d, date, time)
    \/ \E h \in Handlers, d \in Doctors \cup {"D2"}, id \in 1..nextId :
          AcceptStart(h, d, id)

QueueSteps ==
    \/ \E h \in Handlers : Respond(h)
    \/ \E h \in Handlers : BookUserCheck(h)
    \/ \E h \in Handlers : BookQueueInc(h)
    \/ \E h \in Handlers : BookNumberInc(h)
    \/ \E h \in Handlers : BookCreate(h)
    \/ \E h \in Handlers : AcceptConflictCheck(h)
    \/ \E h \in Handlers : AcceptSave(h)
    \/ \E h \in Handlers : Reload(h)
    \/ \E h \in Handlers : QrSave(h)

NextQueue == QueueSteps \/ QueueStarts

SpecQueue == InitServer(0, MaxQueueRequests) /\ [][NextQueue]_vars

(***************************************************************************)
(* The reminder job on confirmed appointments that no request changes: the *)
(* server is started shortly before the first reminder is due, and is      *)
(* restarted by deploys                                                    *)
(***************************************************************************)
ReminderDoc(i, time) ==
    [NewDoc("P", "D1", "2025-06-01", time, "confirmed") EXCEPT
        !.bookingNumber = String(i), !.doctorQueueNumber = i]

InitReminder ==
    /\ \E n \in 1..MaxReminderDocs :
          /\ \E times \in [1..n -> Times \cup {"09:05"}] :
                appts = [i \in 1..n |-> ReminderDoc(i, times[i])]
          /\ \A i, j \in 1..n :
                i < j => parseAppointmentDateTime(appts[i]) < parseAppointmentDateTime(appts[j])
          /\ nextId = n + 1
          /\ counters = (BookingKey :> n) @@ (DoctorQueueKey("D1") :> n)
          /\ job = [JobDown EXCEPT
                      !.clock = FirstClock,
                      !.up = TRUE,
                      !.nextFire = FirstClock + ReminderEvery,
                      !.starts = 1,
                      !.runs = {NewRun(FirstClock)},
                      !.patientReminderFor = [i \in 1..n |-> << >>],
                      !.sent = [i \in 1..n |-> 0]]
    /\ handlers = [h \in Handlers |-> IdleHandler]
    /\ script = IdleScript
    /\ returned = [c \in Callers |-> NotCalled]
    /\ budget = 0
    /\ retired = {}
    /\ lastEnsure = << >>
    /\ scenario = ScenarioOff
    /\ base = << >>
    /\ backfill = IdleBackfill

NextReminder ==
    \/ Restart
    \/ TimerFire
    \/ ClockTick
    \/ \E r \in job.runs : RunFind(r)
    \/ \E r \in job.runs, delivered \in BOOLEAN : RunTurn(r, delivered)
    \/ \E r \in job.runs : RunBulkWrite(r)

SpecReminder == InitReminder /\ [][NextReminder]_vars

(***************************************************************************)
(* The allocator alone: callers on counters that start anywhere            *)
(***************************************************************************)
AllocKeys == {BookingKey} \cup {DoctorQueueKey(d) : d \in Doctors}

InitAlloc ==
    /\ appts = << >>
    /\ nextId = 1
    /\ scenario = ScenarioOff
    /\ base \in [AllocKeys -> 0..MaxBase]
    /\ counters = [k \in {key \in AllocKeys : base[key] > 0} |-> base[k]]
    /\ handlers = [h \in Handlers |-> IdleHandler]
    /\ script = IdleScript
    /\ returned = [c \in Callers |-> NotCalled]
    /\ budget = 0
    /\ retired = {}
    /\ lastEnsure = << >>
    /\ backfill = IdleBackfill
    /\ job = JobDown

NextAlloc ==
    \/ \E c \in Callers : CallBookingNumber(c)
    \/ \E c \in Callers, d \in Doctors : CallDoctorQueueNumber(c, d)

SpecAlloc == InitAlloc /\ [][NextAlloc]_vars

(***************************************************************************)
(* Properties                                                              *)
(***************************************************************************)
HasBookingNumber(doc) == doc.bookingNumber \notin {EmptyString, Unset}

\* C1: any two distinct stored appointments that both carry a non-empty system
\* booking number carry different numbers
C1_BookingNumbersDiffer ==
    \A i, j \in DOMAIN appts :
        (i # j /\ HasBookingNumber(appts[i]) /\ HasBookingNumber(appts[j]))
            => appts[i].bookingNumber # appts[j].bookingNumber

\* two numbered appointments are stored once the reset script has renumbered
\* the collection and set the counter
C1_Witness ==
    /\ \E i, j \in DOMAIN appts :
          i # j /\ HasBookingNumber(appts[i]) /\ HasBookingNumber(appts[j])
    /\ script.pc = "done"

C3_OneWinnerOneConflict ==
    \A h \in Handlers :
        (handlers[h].pc = "done" /\ handlers[h].peer # "none")
            => {handlers[h].outcome, handlers[h].peer} = {"created", "SlotConflict"}

\* C4: the values returned so far by the callers on one counter key are
\* pairwise distinct and are exactly the run that follows the value the counter
\* started from, and the counter stands at the end of that run
ReturnedOn(key) == {c \in Callers : returned[c].called /\ returned[c].key = key}

C4_GapFreeRun ==
    \A key \in DOMAIN base :
        LET k == Cardinality(ReturnedOn(key))
            run == (base[key] + 1)..(base[key] + k) IN
        /\ IF key = BookingKey
           THEN {returned[c].bookingNumber : c \in ReturnedOn(key)} =
                    {String(seq) : seq \in run}
           ELSE {returned[c].doctorQueueNumber : c \in ReturnedOn(key)} = run
        /\ \A c1, c2 \in ReturnedOn(key) :
               c1 # c2 => returned[c1] # returned[c2]
        /\ SeqOf(key) = base[key] + k

\* every caller has called on the bookingNumber counter, which did not start at 0
C4_Witness ==
    /\ base # << >>
    /\ base[BookingKey] = MaxBase
    /\ ReturnedOn(BookingKey) = Callers

\* C5: an appointment that has just been created does not carry the booking
\* number of another appointment that was cancelled, rejected or deleted
C5_NoReuse ==
    \A h \in Handlers :
        (handlers[h].pc = "done" /\ handlers[h].outcome = "created")
            => \A gone \in retired :
                  gone.id # handlers[h].id
                      => gone.bookingNumber # handlers[h].doc.bookingNumber

\* an appointment has been created after a numbered one was deleted
C5_Witness ==
    \E h \in Handlers :
        /\ handlers[h].pc = "done"
        /\ handlers[h].outcome = "created"
        /\ \E gone \in retired : gone.id \notin DOMAIN appts /\ gone.id # handlers[h].id

\* the step in which handler h loads the stored appointment and calls
\* ensureBookingNumber on it
LoadsForEnsure(h) ==
    \/ /\ handlers[h].pc = "idle"
       /\ handlers'[h].kind = "details"
       /\ handlers'[h].id \in DOMAIN appts
    \/ /\ handlers[h].pc = "reload"
       /\ handlers'[h].pc # "reload"
       /\ handlers[h].id \in DOMAIN appts

\* C6: with the requests run one after another, an ensureBookingNumber call on
\* an appointment on which an earlier call has yielded a number yields that
\* number again and increments no counter
C6_SecondEnsureSame ==
    [][\A h \in Handlers :
          (LoadsForEnsure(h) /\ isNumericBooking(LastEnsure(handlers'[h].id)))
              => /\ handlers'[h].doc.bookingNumber = LastEnsure(handlers'[h].id)
                 /\ handlers'[h].pc # "qrEnsureInc"
                 /\ counters' = counters]_vars

\* accept of a numberless appointment has ended: its first call assigned the
\* number, its second call on the reloaded appointment left it
C6_Witness ==
    \E h \in Handlers :
        /\ handlers[h].pc = "done"
        /\ handlers[h].kind = "accept"
        /\ handlers[h].outcome = "ok"
        /\ isNumericBooking(handlers[h].doc.bookingNumber)
        /\ handlers[h].id \in DOMAIN appts
        /\ appts[handlers[h].id].bookingNumber = handlers[h].doc.bookingNumber
        /\ SeqOf(BookingKey) = 1
        /\ nextId = 2

\* C7: a stored booking number that is a valid numeric string never changes
C7_ValidNumberKept ==
    [][\A id \in DOMAIN appts \cap DOMAIN appts' :
          isNumericBooking(appts[id].bookingNumber)
              => appts'[id].bookingNumber = appts[id].bookingNumber]_vars

\* C8: on an empty store P books the slot and gets number "1", Q is refused
\* the slot with SlotConflict, P cancels, Q books the slot and gets number "2"
ScenarioResponse(k) ==
    LET response == scenario.log[k] IN
    CASE k = 1 -> response.outcome = "created" /\ response.bookingNumber = <<1>>
      [] k = 2 -> response.outcome = "SlotConflict"
      [] k = 3 -> response.outcome = "ok"
      [] k = 4 -> response.outcome = "created" /\ response.bookingNumber = <<2>>
      [] OTHER -> TRUE

C8_BookConflictCancelRebook ==
    scenario.on => \A k \in 1..Len(scenario.log) : ScenarioResponse(k)

\* the four requests of the scenario have been answered
C8_Witness == scenario.on /\ Len(scenario.log) = 4

\* C9: a booking whose insert the slot index turned down ends with SlotConflict,
\* on the patient path and on the doctor's manual path
C9_SlotRejectionIsConflict ==
    \A h \in Handlers :
        (/\ handlers[h].pc = "done"
         /\ handlers[h].kind \in {"book", "manual"}
         /\ "slot" \in handlers[h].dup)
            => handlers[h].outcome = "SlotConflict"

\* another pending or confirmed appointment of the accepting doctor holds the
\* date and time of the appointment handler h is accepting
HeldByAnother(h) ==
    LET r == handlers[h] IN
    \E i \in DOMAIN appts \ {r.id} :
        /\ appts[i].doctorProfile = r.actor
        /\ Active(appts[i])
        /\ appts[i].appointmentDateIso = r.doc.appointmentDateIso
        /\ appts[i].appointmentTimeValue = r.doc.appointmentTimeValue

\* C10: accept of an appointment whose date and time another pending or
\* confirmed appointment of the accepting doctor holds ends with SlotConflict
\* and writes nothing
C10_AcceptRefused ==
    [][\A h \in Handlers :
          (/\ handlers[h].kind = "accept"
           /\ handlers[h].pc = "conflictCheck"
           /\ handlers'[h].pc # "conflictCheck"
           /\ HeldByAnother(h))
              => /\ handlers'[h].pc = "done"
                 /\ handlers'[h].outcome = "SlotConflict"
                 /\ appts' = appts]_vars

\* accept of a pending specialty queue appointment has been refused, and the
\* appointment is still pending and unassigned
C10_Witness ==
    \E h \in Handlers :
        /\ handlers[h].pc = "done"
        /\ handlers[h].kind = "accept"
        /\ handlers[h].outcome = "SlotConflict"
        /\ handlers[h].id \in DOMAIN appts
        /\ appts[handlers[h].id].status = "pending"
        /\ appts[handlers[h].id].doctorProfile = NoDoctor

\* C11: an accept whose save the slot index turned down, because a booking of
\* the doctor's slot was stored between its conflict check and its save, ends
\* with SlotConflict and leaves the stored appointment as it was
C11_AcceptRaceIsConflict ==
    [][\A h \in Handlers :
          (/\ handlers[h].kind = "accept"
           /\ handlers[h].pc = "save"
           /\ handlers'[h].pc = "done"
           /\ "slot" \in handlers'[h].dup)
              => /\ handlers'[h].outcome = "SlotConflict"
                 /\ appts' = appts]_vars

\* C12: the status of a stored appointment that is completed or cancelled
\* never changes again
C12_FinalStatusKept ==
    [][\A id \in DOMAIN appts \cap DOMAIN appts' :
          appts[id].status \in {"completed", "cancelled"}
              => appts'[id].status = appts[id].status]_vars

\* C13: every change of the status of a stored appointment is pending to
\* confirmed, confirmed to completed, pending to cancelled or confirmed to
\* cancelled
StatusTransitions ==
    {<<"pending", "confirmed">>, <<"confirmed", "completed">>,
     <<"pending", "cancelled">>, <<"confirmed", "cancelled">>}

C13_StatusTransitions ==
    [][\A id \in DOMAIN appts \cap DOMAIN appts' :
          appts'[id].status # appts[id].status
              => <<appts[id].status, appts'[id].status>> \in StatusTransitions]_vars

\* C14: when a cancelling operation (by the patient, the doctor or the admin,
\* or the doctor's reject) has ended, the stored appointment has no QR, and
\* the bookingNumber and the doctorQueueNumber it had before the operation
\* are the ones it has
C14_CancelClearsQrKeepsNumbers ==
    \A h \in Handlers :
        (/\ handlers[h].pc = "done"
         /\ handlers[h].kind \in {"patientCancel", "doctorCancel", "reject", "adminCancel"}
         /\ handlers[h].outcome = "ok"
         /\ handlers[h].id \in DOMAIN appts)
            => LET stored == appts[handlers[h].id]
                   before == handlers[h].before IN
               /\ stored.qrPayload = NoQr
               /\ HasBookingNumber(before) => stored.bookingNumber = before.bookingNumber
               /\ before.doctorQueueNumber # NullQueueNumber
                      => stored.doctorQueueNumber = before.doctorQueueNumber

\* the queue numbers of doctor d's appointments in collection f, in the order
\* the appointments were created
QueueNumbers(f, d) ==
    LET ids == Ascending({i \in DOMAIN f : f[i].doctorProfile = d})
    IN [k \in 1..Len(ids) |-> f[ids[k]].doctorQueueNumber]

\* the first call of the backfill has returned or thrown, and nothing else
\* has run since
FirstRunEnded ==
    /\ backfill.run = 1
    /\ backfill.pc \in {"done", "failed"}
    /\ budget = MaxBackfillRequests

\* a number is missing, duplicated or beyond the count, or the run has a gap
Faulty(f, d) ==
    LET numbers == QueueNumbers(f, d)
    IN {numbers[k] : k \in DOMAIN numbers} # 1..Len(numbers)

\* C15: after a call of the backfill for a doctor whose queue numbers have a
\* missing, duplicated, gapped or too large number, with no other write, the
\* doctor's N appointments carry 1..N in the order of their creation
C15_BackfillRenumbers ==
    (FirstRunEnded /\ Faulty(backfill.before, backfill.doctor))
        => \A k \in DOMAIN QueueNumbers(appts, backfill.doctor) :
              QueueNumbers(appts, backfill.doctor)[k] = k

\* C16: a call of the backfill leaves every appointment and every counter as
\* it was exactly when the doctor has no appointment, or every appointment is
\* numbered and the largest number is the count and the smallest is 1
C16_WritesExactlyOnDrift ==
    FirstRunEnded =>
        LET numbers == QueueNumbers(backfill.before, backfill.doctor)
            total == Len(numbers)
            assigned == {k \in DOMAIN numbers : numbers[k] # NullQueueNumber}
            tight == /\ Cardinality(assigned) = total
                     /\ \E k \in assigned : numbers[k] = total
                     /\ \E k \in assigned : numbers[k] = 1
                     /\ \A k \in assigned : numbers[k] \in 1..total
        IN (appts = backfill.before /\ counters = backfill.countersBefore)
               <=> (total = 0 \/ tight)

\* C17: a second call of the backfill right after the first has returned,
\* with no write in between, sends no update and leaves every appointment and
\* every counter as it was
C17_SecondRunWritesNothing ==
    (backfill.run = 2 /\ backfill.ended = "returned" /\ budget = MaxBackfillRequests)
        => /\ backfill.writes = 0
           /\ appts = backfill.before
           /\ counters = backfill.countersBefore

\* the second call has returned after a first call that renumbered
C17_Witness ==
    /\ backfill.run = 2
    /\ backfill.pc = "done"
    /\ backfill.saved # {}
    /\ budget = MaxBackfillRequests

\* C18: after a call of the backfill that found drift and renumbered, the
\* queue number the doctor's next booking draws, on the patient path or the
\* manual path, is held by none of the doctor's stored appointments
C18_NextNumberIsFree ==
    \A h \in Handlers :
        (/\ backfill.pc = "done"
         /\ backfill.seq > 0
         /\ handlers[h].kind \in {"book", "manual"}
         /\ handlers[h].pc \in {"numberInc", "create"}
         /\ handlers[h].doc.doctorProfile = backfill.doctor
         /\ handlers[h].doc.doctorQueueNumber # NullQueueNumber)
            => \A i \in OfDoctor(backfill.doctor) :
                  appts[i].doctorQueueNumber # handlers[h].doc.doctorQueueNumber

\* C19: after a call of the backfill with no other write, every appointment
\* whose queue number the call changed has no QR, and every other appointment
\* is as it was
C19_ChangedLoseQrOthersKept ==
    FirstRunEnded =>
        \A id \in DOMAIN backfill.before :
            IF appts[id].doctorQueueNumber # backfill.before[id].doctorQueueNumber
            THEN appts[id].qrPayload = NoQr
            ELSE appts[id] = backfill.before[id]

\* the call changed the number of an appointment that had a QR and left alone
\* another that has one
C19_Witness ==
    /\ FirstRunEnded
    /\ \E id \in DOMAIN backfill.before :
          /\ appts[id].doctorQueueNumber # backfill.before[id].doctorQueueNumber
          /\ backfill.before[id].qrPayload # NoQr
    /\ \E id \in DOMAIN backfill.before :
          /\ appts[id] = backfill.before[id]
          /\ appts[id].qrPayload # NoQr

\* C20: a patient has at most one stored appointment that is not cancelled
\* with one doctor on one date, also when the patient's booking requests run
\* at once and when the doctor books the patient by hand
C20_OnePerPatientDoctorDate ==
    \A i, j \in DOMAIN appts :
        (/\ i # j
         /\ appts[i].user = appts[j].user
         /\ appts[i].doctorProfile = appts[j].doctorProfile
         /\ appts[i].doctorProfile # NoDoctor
         /\ appts[i].appointmentDateIso = appts[j].appointmentDateIso)
            => (appts[i].status = "cancelled" \/ appts[j].status = "cancelled")

\* C21: a booking whose counter update the database rejected still creates
\* its appointment record, without a number
C21_FailedIncrementStillCreates ==
    \A h \in Handlers :
        (/\ handlers[h].pc = "done"
         /\ handlers[h].kind \in {"book", "manual"}
         /\ handlers[h].threw)
            => /\ handlers[h].id \in DOMAIN appts
               /\ ~HasBookingNumber(appts[handlers[h].id])

\* C22: while no request is running, the status, the displayed and the system
\* booking number and the queue number in the QR payload of a stored
\* appointment are the stored ones
C22_QrPayloadIsCurrent ==
    (\A h \in Handlers : Idle(h))
        => \A i \in DOMAIN appts :
              appts[i].qrPayload # NoQr => appts[i].qrPayload = QrPayload(Load(i))

\* C23: once the reset script or renumberAllAppointments has completed with
\* the server stopped, the N appointments carry "1".."N" in the order of
\* their creation and the bookingNumber counter is N; the next booking is
\* given "N+1"
C23_RenumberedInOrder ==
    (script.pc = "done" /\ budget >= MaxRenumberRequests - 1) =>
        LET stored == Cardinality(DOMAIN appts) IN
        /\ \A i \in DOMAIN appts : appts[i].bookingNumber = String(i)
        /\ budget = MaxRenumberRequests => SeqOf(BookingKey) = stored
        /\ \A h \in Handlers :
              handlers[h].doc.bookingNumber # EmptyString
                  => handlers[h].doc.bookingNumber =
                        String(IF handlers[h].id \in DOMAIN appts
                               THEN stored ELSE stored + 1)

\* renumberAllAppointments has overwritten numbers and the booking after it
\* is stored
C23_Witness ==
    /\ script.pc = "done"
    /\ script.seq >= 2
    /\ \E i \in DOMAIN script.loaded : script.loaded[i].bookingNumber # String(i)
    /\ \E h \in Handlers : handlers[h].pc = "done" /\ handlers[h].outcome = "created"
\* the routes that cancel, reject or delete an appointment
Cancelling == {"patientCancel", "reject", "doctorCancel", "delete"}

\* C24: no step of a request that cancels, rejects or deletes an appointment
\* changes a counter
C24_CancelKeepsCounters ==
    [][\A h \in Handlers :
          (handlers[h].kind \in Cancelling /\ handlers'[h] # handlers[h])
              => counters' = counters]_vars
\* C25: no step of a booking, an accept, a cancel, a reject, a delete, an
\* ensureBookingNumber or a doctor's listing lowers or removes a counter
C25_CountersNeverDecrease ==
    [][\A key \in DOMAIN counters :
          key \in DOMAIN counters' /\ counters'[key] >= counters[key]]_vars
\* C26: a patient booking that ends with SlotConflict after its insert was
\* turned down found its doctor, date and time held by a pending or confirmed
\* appointment
C26_ConflictMeansSlotHeld ==
    \A h \in Handlers :
        (/\ handlers[h].pc = "done"
         /\ handlers[h].kind = "book"
         /\ handlers[h].outcome = "SlotConflict"
         /\ handlers[h].dup # {})
            => "slot" \in handlers[h].dup
\* C27: a queue number a step stores on an appointment of a doctor, at its
\* creation or later, is not held by another stored appointment of the doctor
\* and was not held by a cancelled, rejected or deleted one
C27_QueueNumberNeverReused ==
    [][\A i \in DOMAIN appts' :
          LET d == appts'[i].doctorProfile
              q == appts'[i].doctorQueueNumber IN
          (/\ q # NullQueueNumber
           /\ i \notin DOMAIN appts \/ appts[i].doctorQueueNumber # q)
              => /\ \A j \in DOMAIN appts \ {i} :
                       ~(appts[j].doctorProfile = d /\ appts[j].doctorQueueNumber = q)
                 /\ \A gone \in retired :
                       gone.id # i
                           => ~(gone.doctorProfile = d /\ gone.doctorQueueNumber = q)]_vars
\* C28: no two stored appointments of one doctor on one date carry the same
\* queue number
C28_QueueNumbersDifferPerDate ==
    \A i, j \in DOMAIN appts :
        (/\ i # j
         /\ appts[i].doctorProfile = appts[j].doctorProfile
         /\ appts[i].appointmentDateIso = appts[j].appointmentDateIso
         /\ appts[i].doctorQueueNumber # NullQueueNumber)
            => appts[i].doctorQueueNumber # appts[j].doctorQueueNumber

\* the insert of a booking that drew the queue number a stored appointment of
\* its doctor and date holds has been turned down by the index
C28_Witness ==
    \E h \in Handlers :
        /\ handlers[h].pc = "done"
        /\ handlers[h].dup = {"queue"}
        /\ \E i \in DOMAIN appts :
              /\ appts[i].doctorProfile = handlers[h].doc.doctorProfile
              /\ appts[i].appointmentDateIso = handlers[h].doc.appointmentDateIso
              /\ appts[i].doctorQueueNumber = handlers[h].doc.doctorQueueNumber
\* C29: a call of the allocator on a key returns the counter's value plus 1,
\* and 1 when the counter is absent, leaves the counter of the key at the
\* returned value and changes the counter of no other key
C29_NextValueTouchesOneKey ==
    [][\A c \in Callers :
          returned'[c] # returned[c] =>
              LET key == returned'[c].key
                  value == SeqOf(key) + 1 IN
              /\ IF key = BookingKey
                 THEN returned'[c].bookingNumber = String(value)
                 ELSE returned'[c].doctorQueueNumber = value
              /\ key \notin DOMAIN counters => value = 1
              /\ DOMAIN counters' = DOMAIN counters \cup {key}
              /\ counters'[key] = value
              /\ \A other \in DOMAIN counters \ {key} :
                    counters'[other] = counters[other]]_vars

\* a call on an absent counter has returned while another counter exists
C29_Witness ==
    \E c \in Callers :
        /\ returned[c].called
        /\ base[returned[c].key] = 0
        /\ counters[returned[c].key] = 1
        /\ \E other \in DOMAIN counters :
              other # returned[c].key /\ counters[other] = base[other]
\* C30: with the requests one after another, of two stored appointments that
\* carry booking numbers the one created first carries the smaller number
C30_MonotonicInCreationOrder ==
    \A i, j \in DOMAIN appts :
        (/\ i < j
         /\ isNumericBooking(appts[i].bookingNumber)
         /\ isNumericBooking(appts[j].bookingNumber))
            => NumberOf(appts[i].bookingNumber) < NumberOf(appts[j].bookingNumber)

\* C30 as amended: with the requests one after another, of two stored
\* appointments that the booking routes created, and so numbered at their
\* creation, the one created first carries the smaller number
C30_CreatedNumbersGrow ==
    \A i, j \in DOMAIN appts :
        (MaxLegacy < i /\ i < j)
            => /\ isNumericBooking(appts[i].bookingNumber)
               /\ isNumericBooking(appts[j].bookingNumber)
               /\ NumberOf(appts[i].bookingNumber) < NumberOf(appts[j].bookingNumber)

\* two appointments the booking routes created one after the other are
\* stored and every request has been answered
C30_Witness ==
    \E i, j \in DOMAIN appts :
        /\ MaxLegacy < i /\ i < j
        /\ \A h \in Handlers : Idle(h)

\* C31: when a booking for a doctor or an accept has ended well, the stored
\* appointment it linked to the doctor carries a numeric queue number
C31_LinkedHasQueueNumber ==
    \A h \in Handlers :
        (/\ handlers[h].pc = "done"
         /\ handlers[h].kind \in {"book", "manual", "accept"}
         /\ handlers[h].outcome \in {"created", "ok"}
         /\ handlers[h].doc.doctorProfile # NoDoctor
         /\ handlers[h].id \in DOMAIN appts)
            => appts[handlers[h].id].doctorQueueNumber # NullQueueNumber

\* C32: of two accepts of one pending, unassigned appointment by different
\* doctors that ran at the same time, exactly one ends well, and the stored
\* appointment is linked to the doctor of that accept
C32_OneAcceptSucceeds ==
    \A h \in Handlers :
        (/\ handlers[h].pc = "done"
         /\ handlers[h].kind = "accept"
         /\ handlers[h].peer # "none")
            => /\ (handlers[h].outcome = "ok") # (handlers[h].peer = "ok")
               /\ handlers[h].id \in DOMAIN appts
                      => (appts[handlers[h].id].doctorProfile = handlers[h].actor
                              <=> handlers[h].outcome = "ok")

\* C33: a call of the backfill that found drift, with no other write while it
\* runs, does not end in a save the queue number index turned down
C33_BackfillSavesNeverCollide ==
    (backfill.run = 1 /\ budget = MaxBackfillRequests) => backfill.pc # "failed"

\* C34: the renumbering of every appointment with the server stopped, from
\* pairwise distinct booking numbers, does not end in a save the bookingNumber
\* index turned down
C34_RenumberSavesNeverCollide == script.pc # "failed"

\* C35: the queue number a patient booking or a manual booking has drawn is
\* held by no other stored appointment of its doctor and date, and no insert
\* of a booking is turned down by the queue number index
C35_IssuedQueueNumbersDiffer ==
    \A h \in Handlers :
        (/\ handlers[h].kind \in {"book", "manual"}
         /\ handlers[h].doc.doctorQueueNumber # NullQueueNumber)
            => /\ \A i \in DOMAIN appts \ {handlers[h].id} :
                     QueueKey(appts[i]) # QueueKey(handlers[h].doc)
               /\ "queue" \notin handlers[h].dup

\* C36: the bookingNumber counter is at least every numeric booking number a
\* stored appointment carries
C36_CounterBoundsNumbers ==
    \A i \in DOMAIN appts :
        isNumericBooking(appts[i].bookingNumber)
            => NumberOf(appts[i].bookingNumber) <= SeqOf(BookingKey)

\* the counter has handed out two numbers, the last one is stored, and a
\* numbered appointment has been cancelled, rejected or deleted
C36_Witness ==
    /\ SeqOf(BookingKey) >= 2
    /\ \E i \in DOMAIN appts : NumberOf(appts[i].bookingNumber) = SeqOf(BookingKey)
    /\ retired # {}

\* C37: a patient booking that ends with SlotConflict or DuplicateDailyBooking
\* has stored no appointment and has drawn no number from the bookingNumber
\* counter or from a queue counter
C37_RejectedBookingLeavesStore ==
    \A h \in Handlers :
        (/\ handlers[h].pc = "done"
         /\ handlers[h].kind = "book"
         /\ handlers[h].outcome \in {"SlotConflict", "DuplicateDailyBooking"})
            => /\ handlers[h].id \notin DOMAIN appts
               /\ handlers[h].doc.bookingNumber = EmptyString
               /\ handlers[h].doc.doctorQueueNumber = NullQueueNumber

C39_ReminderSentOnce == \A id \in DOMAIN job.sent : job.sent[id] <= 1
====
